---------------------------- MODULE Spec2Model ----------------------------
(***************************************************************************)
(* Compile-time reasoning of the nodes for calls to the 'range' builtin    *)
(* (nuitka/nodes/BuiltinRangeNode.py): iteration length, iteration value,  *)
(* truth value, side effects and constant folding of the nodes             *)
(* CPythonExpressionBuiltinRange0/1/2/3.                                   *)
(*                                                                         *)
(* Python integers are unbounded and Python floats are IEEE doubles, so    *)
(* the integer facts of the operands are kept as arbitrary precision       *)
(* integers (sign and little-endian limbs) and float() / true division /   *)
(* math.ceil are computed with the rounding of a 53 bit significand.       *)
(***************************************************************************)
EXTENDS Integers, Sequences, FiniteSets

(***************************************************************************)
(* Bounds of the model.                                                    *)
(***************************************************************************)
\* operands with a small integer fact range over -MaxVal .. MaxVal
MaxVal == 1
\* element_index ranges over 0 .. MaxIndex
MaxIndex == 3
\* the count of isKnownToBeIterable ranges over None and 0 .. MaxCount
MaxCount == 2

(***************************************************************************)
(* Python's None, and the outcome of a call: a returned value or a raised  *)
(* exception.                                                              *)
(***************************************************************************)
None == [none |-> TRUE]

Bool(b) == [bool |-> b]

Str(t) == [str |-> t]

Returns(v) == [raises |-> "", value |-> v]

Raises(exc) == [raises |-> exc, value |-> None]

(***************************************************************************)
(* Python integers: [neg, mag], mag the magnitude as little-endian limbs   *)
(* of LimbBits bits without leading zero limbs; zero is [FALSE, <<>>].     *)
(***************************************************************************)
LimbBits == 15

Base == 2 ^ LimbBits

RECURSIVE MagNorm(_)
MagNorm(m) ==
    IF m = <<>> THEN <<>>
    ELSE IF m[Len(m)] = 0 THEN MagNorm(SubSeq(m, 1, Len(m) - 1))
    ELSE m

RECURSIVE MagFromNat(_)
MagFromNat(n) ==
    IF n = 0 THEN <<>> ELSE <<n % Base>> \o MagFromNat(n \div Base)

RECURSIVE MagToNat(_)
MagToNat(m) ==
    IF m = <<>> THEN 0 ELSE m[1] + Base * MagToNat(Tail(m))

\* -1, 0, 1 as a < b, a = b, a > b, for magnitudes of the same length
RECURSIVE MagCmpLimbs(_, _, _)
MagCmpLimbs(a, b, i) ==
    IF i = 0 THEN 0
    ELSE IF a[i] < b[i] THEN -1
    ELSE IF a[i] > b[i] THEN 1
    ELSE MagCmpLimbs(a, b, i - 1)

MagCmp(a, b) ==
    IF Len(a) < Len(b) THEN -1
    ELSE IF Len(a) > Len(b) THEN 1
    ELSE MagCmpLimbs(a, b, Len(a))

\* the i-th limb of m, 0 beyond its length
Limb(m, i) == IF i <= Len(m) THEN m[i] ELSE 0

RECURSIVE MagAddC(_, _, _, _)
MagAddC(a, b, i, carry) ==
    IF i > Len(a) /\ i > Len(b) THEN (IF carry = 0 THEN <<>> ELSE <<carry>>)
    ELSE <<(Limb(a, i) + Limb(b, i) + carry) % Base>>
         \o MagAddC(a, b, i + 1, (Limb(a, i) + Limb(b, i) + carry) \div Base)

MagAdd(a, b) == MagAddC(a, b, 1, 0)

\* a - b for a >= b
RECURSIVE MagSubB(_, _, _, _)
MagSubB(a, b, i, borrow) ==
    IF i > Len(a) THEN <<>>
    ELSE <<(a[i] - Limb(b, i) - borrow) % Base>>
         \o MagSubB(a, b, i + 1, IF a[i] - Limb(b, i) - borrow < 0 THEN 1 ELSE 0)

MagSub(a, b) == MagNorm(MagSubB(a, b, 1, 0))

\* a * m for a natural m <= Base
RECURSIVE MagMulSmallC(_, _, _, _)
MagMulSmallC(a, m, i, carry) ==
    IF i > Len(a) THEN MagFromNat(carry)
    ELSE <<(a[i] * m + carry) % Base>>
         \o MagMulSmallC(a, m, i + 1, (a[i] * m + carry) \div Base)

MagMulSmall(a, m) == MagNorm(MagMulSmallC(a, m, 1, 0))

\* m * Base
MagShiftLimb(m) == IF m = <<>> THEN <<>> ELSE <<0>> \o m

RECURSIVE MagMul(_, _)
MagMul(a, b) ==
    IF b = <<>> \/ a = <<>> THEN <<>>
    ELSE MagAdd(MagMulSmall(a, b[1]), MagShiftLimb(MagMul(a, Tail(b))))

\* quotient and remainder of a by a natural 0 < m <= Base, from the top limb
\* (the i-th) down, q the limbs of the quotient so far
RECURSIVE MagDivSmallR(_, _, _, _, _)
MagDivSmallR(a, m, i, rem, q) ==
    IF i = 0 THEN [q |-> MagNorm(q), r |-> rem]
    ELSE MagDivSmallR(a, m, i - 1, (rem * Base + a[i]) % m,
                      <<(rem * Base + a[i]) \div m>> \o q)

MagDivSmall(a, m) == MagDivSmallR(a, m, Len(a), 0, <<>>)

RECURSIVE NatBitLen(_)
NatBitLen(n) == IF n = 0 THEN 0 ELSE 1 + NatBitLen(n \div 2)

MagBitLen(m) ==
    IF m = <<>> THEN 0 ELSE LimbBits * (Len(m) - 1) + NatBitLen(m[Len(m)])

\* a * 2^k
RECURSIVE MagShl(_, _)
MagShl(a, k) ==
    IF k = 0 THEN a
    ELSE IF k >= LimbBits THEN MagShl(MagShiftLimb(a), k - LimbBits)
    ELSE MagMulSmall(a, 2 ^ k)

\* floor(a / 2^k) and whether bits were lost, LimbBits bits at a time
RECURSIVE MagShrL(_, _, _)
MagShrStep(d, k, lost) == MagShrL(d.q, k, lost \/ d.r # 0)

MagShrL(a, k, lost) ==
    IF k = 0 THEN [q |-> a, lost |-> lost]
    ELSE IF k >= LimbBits THEN MagShrStep(MagDivSmall(a, Base), k - LimbBits, lost)
    ELSE MagShrStep(MagDivSmall(a, 2 ^ k), 0, lost)

MagShr(a, k) == MagShrL(a, k, FALSE)

MagIsOdd(m) == m # <<>> /\ m[1] % 2 = 1

PyInt(n) == [neg |-> n < 0, mag |-> MagFromNat(IF n < 0 THEN -n ELSE n)]

IntMk(neg, mag) == [neg |-> neg /\ mag # <<>>, mag |-> mag]

IntNeg(a) == IntMk(~a.neg, a.mag)

IntAdd(a, b) ==
    IF a.neg = b.neg THEN IntMk(a.neg, MagAdd(a.mag, b.mag))
    ELSE IF MagCmp(a.mag, b.mag) >= 0 THEN IntMk(a.neg, MagSub(a.mag, b.mag))
    ELSE IntMk(b.neg, MagSub(b.mag, a.mag))

IntSub(a, b) == IntAdd(a, IntNeg(b))

IntMul(a, b) == IntMk(a.neg # b.neg, MagMul(a.mag, b.mag))

IntLt(a, b) ==
    IF a.neg # b.neg THEN a.neg
    ELSE IF a.neg THEN MagCmp(a.mag, b.mag) > 0
    ELSE MagCmp(a.mag, b.mag) < 0

IntGe(a, b) == ~IntLt(a, b)

IntGt(a, b) == IntLt(b, a)

IntMax(a, b) == IF IntLt(a, b) THEN b ELSE a

Zero == PyInt(0)

(***************************************************************************)
(* Python floats (IEEE doubles): [neg, mant, exp], the value being         *)
(* +-mant * 2^exp with a significand mant of at most MantissaBits bits.    *)
(* Every operation rounds to nearest, ties to even, as the hardware does.  *)
(***************************************************************************)
MantissaBits == 53

\* d the quotient and remainder of m / 2^(t-1) by 2: the remainder is the
\* bit below the unit, above tells that lower bits are set
MagRoundHalf(d, above) ==
    IF d.r = 1 /\ (above \/ MagIsOdd(d.q)) THEN MagAdd(d.q, <<1>>) ELSE d.q

MagRoundLow(s, sticky) == MagRoundHalf(MagDivSmall(s.q, 2), s.lost \/ sticky)

\* m / 2^t (t >= 1) rounded to nearest, ties to even; sticky tells that the
\* exact value lies above m
MagRoundShr(m, t, sticky) == MagRoundLow(MagShr(m, t - 1), sticky)

\* the rounding carried into one more bit
FloatRenorm(neg, r, e) ==
    IF MagBitLen(r) > MantissaBits
    THEN [neg |-> neg, mant |-> MagDivSmall(r, 2).q, exp |-> e + 1]
    ELSE [neg |-> neg, mant |-> r, exp |-> e]

FloatRoundBits(neg, m, e, sticky, bits) ==
    IF bits <= MantissaBits THEN [neg |-> neg, mant |-> m, exp |-> e]
    ELSE FloatRenorm(neg, MagRoundShr(m, bits - MantissaBits, sticky),
                     e + bits - MantissaBits)

\* the float nearest to +-m * 2^e (sticky: the exact value lies above m)
FloatRound(neg, m, e, sticky) == FloatRoundBits(neg, m, e, sticky, MagBitLen(m))

\* float(a) of a Python integer
FloatFromInt(a) == FloatRound(a.neg, a.mag, 0, FALSE)

FloatDivQuotient(neg, qr, e) == FloatRound(neg, qr.q, e, qr.r # 0)

\* the dividend scaled by 2^k, so that the quotient has the bits to round
FloatDivScaled(f, g, k) ==
    FloatDivQuotient(f.neg # g.neg,
                     MagDivSmall(MagShl(f.mant, k), MagToNat(g.mant)),
                     f.exp - g.exp - k)

FloatDivScale(need) == IF need > 0 THEN need ELSE 0

\* f / g, the divisor's significand fitting one limb (the steps of the model)
FloatDiv(f, g) ==
    IF f.mant = <<>> THEN [neg |-> FALSE, mant |-> <<>>, exp |-> 0]
    ELSE FloatDivScaled(f, g, FloatDivScale((MantissaBits + 2)
                                  + MagBitLen(g.mant) - MagBitLen(f.mant)))

FloatCeilShifted(neg, s) ==
    [neg  |-> neg /\ s.q # <<>>,
     mant |-> IF ~neg /\ s.lost THEN MagAdd(s.q, <<1>>) ELSE s.q,
     exp  |-> 0]

\* math.ceil(f): the least integral float not below f
FloatCeil(f) ==
    IF f.exp >= 0 THEN f ELSE FloatCeilShifted(f.neg, MagShr(f.mant, -f.exp))

FloatIntegral(neg, r) == [neg |-> neg /\ r # <<>>, mant |-> r, exp |-> 0]

FloatRoundHalf(neg, d) ==
    FloatIntegral(neg, IF d.r = 1 THEN MagAdd(d.q, <<1>>) ELSE d.q)

\* round(f): the nearest integral float, halves away from zero
FloatRoundHalfUp(f) ==
    IF f.exp >= 0 THEN f
    ELSE FloatRoundHalf(f.neg, MagDivSmall(MagShr(f.mant, -f.exp - 1).q, 2))

\* int(f): truncation towards zero
IntFromFloat(f) ==
    IF f.exp >= 0 THEN IntMk(f.neg, MagShl(f.mant, f.exp))
    ELSE IntMk(f.neg, MagShr(f.mant, -f.exp).q)

\* f < 0
FloatIsNegative(f) == f.neg /\ f.mant # <<>>

(***************************************************************************)
(* Operand sub-expressions, as far as the range nodes look at them: what   *)
(* mayHaveSideEffects() and getIntegerValue() answer, and whether the      *)
(* operand is a compile time constant.  A constant has no side effects;    *)
(* a constant without an integer fact is a constant of another type.       *)
(***************************************************************************)
SmallInts == {PyInt(n) : n \in -MaxVal .. MaxVal}

\* integers that float() cannot represent: 2^MantissaBits + 1
BigInts == {IntAdd(IntMk(FALSE, MagShl(<<1>>, MantissaBits)), PyInt(1))}

Operands(vals) ==
    {o \in [effects : BOOLEAN, literal : BOOLEAN, intval : vals \cup {None}] :
        ~(o.effects /\ o.literal)}

Range0Nodes == {[kind |-> "EXPRESSION_BUILTIN_RANGE0"]}

Range1Nodes ==
    {[kind |-> "EXPRESSION_BUILTIN_RANGE1", low |-> l] : l \in Operands(SmallInts)}

Range2Nodes ==
    {[kind |-> "EXPRESSION_BUILTIN_RANGE2", low |-> l, high |-> h] :
        l \in Operands(SmallInts), h \in Operands(SmallInts \cup BigInts)}

Range3Nodes ==
    {[kind |-> "EXPRESSION_BUILTIN_RANGE3", low |-> l, high |-> h, step |-> st] :
        l \in Operands(SmallInts), h \in Operands(SmallInts \cup BigInts),
        st \in Operands(SmallInts)}

PythonVersions == {270, 300}

IsRange1(n) == n.kind = "EXPRESSION_BUILTIN_RANGE1"

IsRange2(n) == n.kind = "EXPRESSION_BUILTIN_RANGE2"

IsRange3(n) == n.kind = "EXPRESSION_BUILTIN_RANGE3"

IsRange0(n) == n.kind = "EXPRESSION_BUILTIN_RANGE0"

IsRangeWithOperands(n) == IsRange1(n) \/ IsRange2(n) \/ IsRange3(n)

getLow(n) == n.low

getHigh(n) == n.high

getStep(n) == n.step

getIntegerValue(child) == child.intval

\* the children of a node in the order of named_children
getVisitableNodes(n) ==
    IF IsRange1(n) THEN <<n.low>>
    ELSE IF IsRange2(n) THEN <<n.low, n.high>>
    ELSE IF IsRange3(n) THEN <<n.low, n.high, n.step>>
    ELSE <<>>

\* the constant node the node factory makes of a value
makeConstantReplacementNode(constant, n) ==
    [kind |-> "EXPRESSION_CONSTANT_REF", constant |-> constant]

(***************************************************************************)
(* CPythonExpressionBuiltinRange1                                          *)
(***************************************************************************)
getIterationLength1(n) ==
    LET low == getIntegerValue(getLow(n))
    IN  IF low = None THEN Returns(None)
        ELSE Returns(IntMax(Zero, low))

getIterationValueOfLength1(n, element_index, length) ==
    IF length = None THEN Returns(None)
    ELSE IF IntGt(element_index, length) THEN Returns(None)
    ELSE Returns(makeConstantReplacementNode(element_index, n))

getIterationValue1(n, element_index) ==
    getIterationValueOfLength1(n, element_index, getIterationLength1(n).value)

(***************************************************************************)
(* CPythonExpressionBuiltinRange2                                          *)
(***************************************************************************)
getIterationLength2(n) ==
    LET low  == getIntegerValue(getLow(n))
        high == getIntegerValue(getHigh(n))
    IN  IF low = None THEN Returns(None)
        ELSE IF high = None THEN Returns(None)
        ELSE Returns(IntMax(Zero, IntSub(high, low)))

\* if result >= high: return None, else the constant node of result
resultBelow(n, result, high) ==
    IF IntGe(result, high) THEN Returns(None)
    ELSE Returns(makeConstantReplacementNode(result, n))

resultNotAbove(n, result, high) ==
    IF IntGt(result, high) THEN Returns(None)
    ELSE Returns(makeConstantReplacementNode(result, n))

getIterationValue2_StrictBound(n, element_index) ==
    LET low  == getIntegerValue(getLow(n))
        high == getIntegerValue(getHigh(n))
    IN  IF low = None THEN Returns(None)
        ELSE IF high = None THEN Returns(None)
        ELSE resultNotAbove(n, IntAdd(low, element_index), high)

getIterationValue2(n, element_index) ==
    LET low  == getIntegerValue(getLow(n))
        high == getIntegerValue(getHigh(n))
    IN  IF low = None THEN Returns(None)
        ELSE IF high = None THEN Returns(None)
        ELSE resultBelow(n, IntAdd(low, element_index), high)

(***************************************************************************)
(* CPythonExpressionBuiltinRange3                                          *)
(***************************************************************************)
\* math.ceil( float( high - low ) / step )
CeilOfFloatQuotient(low, high, step) ==
    FloatCeil(FloatDiv(FloatFromInt(IntSub(high, low)), FloatFromInt(step)))

\* assert not estimate < 0; return int( estimate )
lengthOfEstimate(estimate) ==
    IF FloatIsNegative(estimate) THEN Raises("AssertionError")
    ELSE Returns(IntFromFloat(estimate))

getIterationLength3(n) ==
    LET low  == getIntegerValue(getLow(n))
        high == getIntegerValue(getHigh(n))
        step == getIntegerValue(getStep(n))
    IN  IF low = None THEN Returns(None)
        ELSE IF high = None THEN Returns(None)
        ELSE IF step = None THEN Returns(None)
        ELSE IF step = Zero THEN Returns(None)
        ELSE LET estimate ==
                     IF IntLt(low, high)
                     THEN IF IntLt(step, Zero) THEN FloatFromInt(Zero)
                          ELSE CeilOfFloatQuotient(low, high, step)
                     ELSE IF IntGt(step, Zero) THEN FloatFromInt(Zero)
                          ELSE CeilOfFloatQuotient(low, high, step)
             IN  lengthOfEstimate(FloatRoundHalfUp(estimate))

\* low + step * element_index; None * int is a TypeError
getIterationValue3(n, element_index) ==
    LET low  == getIntegerValue(getLow(n))
        high == getIntegerValue(getHigh(n))
        step == getIntegerValue(getStep(n))
    IN  IF low = None THEN Returns(None)
        ELSE IF high = None THEN Returns(None)
        ELSE IF step = None THEN Raises("TypeError")
        ELSE resultBelow(n, IntAdd(low, IntMul(step, element_index)), high)

(***************************************************************************)
(* The methods by the class of the node.                                   *)
(***************************************************************************)
getIterationLength(n) ==
    IF IsRange1(n) THEN getIterationLength1(n)
    ELSE IF IsRange2(n) THEN getIterationLength2(n)
    ELSE getIterationLength3(n)

getIterationValue(n, element_index) ==
    IF IsRange1(n) THEN getIterationValue1(n, element_index)
    ELSE IF IsRange2(n) THEN getIterationValue2(n, element_index)
    ELSE getIterationValue3(n, element_index)

\* length is not None
canPredictOfLength(length) ==
    IF length.raises # "" THEN length
    ELSE Returns(Bool(length.value # None))

canPredictIterationValues(n) == canPredictOfLength(getIterationLength(n))

\* CPythonExpressionBuiltinRangeBase.getTruthValue
truthOfLength(length) ==
    IF length.raises # "" THEN length
    ELSE IF length.value = None THEN Returns(None)
    ELSE Returns(Bool(IntGt(length.value, Zero)))

getTruthValue(n) == truthOfLength(getIterationLength(n))


\* CPythonExpressionBuiltinRangeBase.mayHaveSideEffects: the for loop over the
\* children from the i-th on, and its else branch
RECURSIVE mayHaveSideEffectsFrom(_, _)
mayHaveSideEffectsFrom(children, i) ==
    IF i > Len(children) THEN FALSE
    ELSE IF children[i].effects THEN TRUE
    ELSE IF getIntegerValue(children[i]) = None THEN TRUE
    ELSE mayHaveSideEffectsFrom(children, i + 1)

RECURSIVE mayHaveSideEffectsFrom_NoIntegerCheck(_, _)
mayHaveSideEffectsFrom_NoIntegerCheck(children, i) ==
    IF i > Len(children) THEN FALSE
    ELSE IF children[i].effects THEN TRUE
    ELSE mayHaveSideEffectsFrom_NoIntegerCheck(children, i + 1)

mayHaveSideEffects_NoIntegerCheck(n) ==
    IF IsRange0(n) THEN Returns(Bool(FALSE))
    ELSE Returns(Bool(mayHaveSideEffectsFrom_NoIntegerCheck(getVisitableNodes(n), 1)))

mayHaveSideEffects(n) ==
    IF IsRange0(n) THEN Returns(Bool(FALSE))
    ELSE Returns(Bool(mayHaveSideEffectsFrom(getVisitableNodes(n), 1)))

\* getIterationLength( self, constraint_collection ) takes one argument
\* besides self
GetIterationLengthParameters == 1

\* a call of self.getIterationLength with the arguments given
callGetIterationLength(n, arguments) ==
    IF Len(arguments) # GetIterationLengthParameters THEN Raises("TypeError")
    ELSE getIterationLength(n)

\* count is None or count == self.getIterationLength()
countIsLength(count, length) ==
    IF length.raises # "" THEN length
    ELSE Returns(Bool(count = length.value))

isKnownToBeIterable(n, count) ==
    IF count = None THEN Returns(Bool(TRUE))
    ELSE countIsLength(count, callGetIterationLength(n, <<>>))

(***************************************************************************)
(* computeNode.  The builtin specification (isCompileTimeComputable,       *)
(* simulateCall) and getComputationResult are collaborators of the nodes.  *)
(***************************************************************************)
RECURSIVE isCompileTimeComputable(_)
isCompileTimeComputable(given_values) ==
    IF given_values = <<>> THEN TRUE
    ELSE Head(given_values).literal /\ isCompileTimeComputable(Tail(given_values))

\* range( *given_values ) on the constants: the list, told by its start, stop
\* and step, or the exception of the call
simulateCall(given_values) ==
    IF \E i \in 1 .. Len(given_values) : given_values[i].intval = None
    THEN Raises("TypeError")
    ELSE IF Len(given_values) = 3 /\ given_values[3].intval = Zero
    THEN Raises("ValueError")
    ELSE Returns([range |-> [i \in 1 .. Len(given_values) |-> given_values[i].intval]])

\* the node is replaced by the constant computed; a computation that raises
\* leaves the node as it is
getComputationResult(n, computation, description) ==
    IF computation.raises # "" THEN <<n, None, None>>
    ELSE <<makeConstantReplacementNode(computation.value, n),
           Str("new_constant"), Str(description)>>

computeNode1_NoVersionGate(n, python_version) ==
    LET given_values == <<getLow(n)>>
    IN  IF ~isCompileTimeComputable(given_values) THEN <<n, None, None>>
        ELSE getComputationResult(n, simulateCall(given_values),
                                  "Builtin call to range precomputed.")

computeNode1(n, python_version) ==
    IF python_version >= 300 THEN <<n, None, None>>
    ELSE LET given_values == <<getLow(n)>>
         IN  IF ~isCompileTimeComputable(given_values) THEN <<n, None, None>>
             ELSE getComputationResult(n, simulateCall(given_values),
                                       "Builtin call to range precomputed.")

\* CPythonExpressionBuiltinRange2/3.computeBuiltinSpec
computeBuiltinSpec(n, given_values) ==
    IF ~isCompileTimeComputable(given_values) THEN <<n, None, None>>
    ELSE getComputationResult(n, simulateCall(given_values),
                              "Builtin call to range precomputed.")

computeNode2(n, python_version) ==
    IF python_version >= 300 THEN <<n, None, None>>
    ELSE computeBuiltinSpec(n, <<getLow(n), getHigh(n)>>)

computeNode3(n, python_version) ==
    IF python_version >= 300 THEN <<n, None, None>>
    ELSE computeBuiltinSpec(n, <<getLow(n), getHigh(n), getStep(n)>>)

computeNode(n, python_version) ==
    IF IsRange1(n) THEN computeNode1(n, python_version)
    ELSE IF IsRange2(n) THEN computeNode2(n, python_version)
    ELSE computeNode3(n, python_version)

(***************************************************************************)
(* The state: the node in the tree, the version of Python compiled for,    *)
(* and the last query made of the node, with its outcome.  The optimizer   *)
(* puts the node computeNode returns in the place of the node.             *)
(***************************************************************************)
VARIABLES node, python_version, call

vars == <<node, python_version, call>>

NoCall == [op |-> "", self |-> None, arg |-> None, result |-> Returns(None)]

Init ==
    /\ node \in Range0Nodes \cup Range1Nodes \cup Range2Nodes \cup Range3Nodes
    /\ python_version \in PythonVersions
    /\ call = NoCall

Query(op, arg, result) ==
    /\ call' = [op |-> op, self |-> node, arg |-> arg, result |-> result]
    /\ UNCHANGED <<node, python_version>>

GetIterationLength ==
    /\ IsRangeWithOperands(node)
    /\ Query("getIterationLength", None, getIterationLength(node))

CanPredictIterationValues ==
    /\ IsRangeWithOperands(node)
    /\ Query("canPredictIterationValues", None, canPredictIterationValues(node))

GetIterationValue ==
    /\ IsRangeWithOperands(node)
    /\ \E element_index \in 0 .. MaxIndex :
          Query("getIterationValue", PyInt(element_index),
                getIterationValue(node, PyInt(element_index)))

GetTruthValue ==
    /\ IsRangeWithOperands(node)
    /\ Query("getTruthValue", None, getTruthValue(node))

MayHaveSideEffects ==
    /\ IsRange0(node) \/ IsRangeWithOperands(node)
    /\ Query("mayHaveSideEffects", None, mayHaveSideEffects(node))

IsKnownToBeIterable ==
    /\ IsRangeWithOperands(node)
    /\ \E count \in {None} \cup {PyInt(c) : c \in 0 .. MaxCount} :
          Query("isKnownToBeIterable", count, isKnownToBeIterable(node, count))

\* the optimizer replaces the node by the node returned
Replace(result) ==
    /\ call' = [op |-> "computeNode", self |-> node, arg |-> None,
                result |-> Returns(result)]
    /\ node' = result[1]
    /\ UNCHANGED python_version

ComputeNode ==
    /\ IsRangeWithOperands(node)
    /\ Replace(computeNode(node, python_version))

Next ==
    \/ GetIterationLength
    \/ CanPredictIterationValues
    \/ GetIterationValue
    \/ GetTruthValue
    \/ MayHaveSideEffects
    \/ IsKnownToBeIterable
    \/ ComputeNode

Spec == Init /\ [][Next]_vars

(***************************************************************************)
(* What the properties speak of: the node queried, its operands' integer   *)
(* facts, and the length of range(low, high, step) in exact arithmetic.    *)
(***************************************************************************)
Asked(op) == call.op = op

LowOf(n) == n.low.intval

HighOf(n) == n.high.intval

StepOf(n) == n.step.intval

AllKnown(n) ==
    \A i \in 1 .. Len(getVisitableNodes(n)) : getVisitableNodes(n)[i].intval # None

Value(v) == Returns(makeConstantReplacementNode(v, call.self))

OutOfRange == Returns(None)

Unknown == Returns(None)

\* the ceiling of a / s in exact arithmetic, for a step s of one limb
ExactCeilingOfRemainder(a, s, d) ==
    IF a.neg = s.neg
    THEN IntMk(FALSE, IF d.r # 0 THEN MagAdd(d.q, <<1>>) ELSE d.q)
    ELSE IntMk(TRUE, d.q)

ExactCeiling(a, s) ==
    ExactCeilingOfRemainder(a, s, MagDivSmall(a.mag, MagToNat(s.mag)))

DirectionMismatch(low, high, step) ==
    \/ IntLt(low, high) /\ IntLt(step, Zero)
    \/ IntGe(low, high) /\ IntGt(step, Zero)

ExactLength3(low, high, step) ==
    IF DirectionMismatch(low, high, step) THEN Zero
    ELSE ExactCeiling(IntSub(high, low), step)

\* x lies strictly before high in the direction of step
Before(x, high, step) ==
    IF IntGt(step, Zero) THEN IntLt(x, high) ELSE IntGt(x, high)

Element3(low, step, i) == IntAdd(low, IntMul(step, i))

\* n is the number of elements low, low+step, ... strictly before high
CountsElements(n, low, high, step) ==
    /\ IntGe(n, Zero)
    /\ n = Zero \/ Before(Element3(low, step, IntSub(n, PyInt(1))), high, step)
    /\ ~Before(Element3(low, step, n), high, step)

\* C1: on an Arity1 node with a known operand, getIterationValue(i) is the
\* value i exactly when i < max(0, low) and out of range from max(0, low) on.
C1_IterationValue1 ==
    (Asked("getIterationValue") /\ IsRange1(call.self) /\ AllKnown(call.self)) =>
        call.result = IF IntLt(call.arg, IntMax(Zero, LowOf(call.self)))
                      THEN Value(call.arg) ELSE OutOfRange

\* C2: on an Arity3 node with known operands and a step other than zero,
\* getIterationValue(i) is low + step*i for i below getIterationLength() and
\* out of range from getIterationLength() on.
C2_IterationValue3 ==
    (/\ Asked("getIterationValue") /\ IsRange3(call.self) /\ AllKnown(call.self)
     /\ StepOf(call.self) # Zero) =>
        call.result = IF IntLt(call.arg, getIterationLength3(call.self).value)
                      THEN Value(Element3(LowOf(call.self), StepOf(call.self), call.arg))
                      ELSE OutOfRange

\* C3: on an Arity3 node whose step is the known integer 0, with low and high
\* known, getIterationLength() and getIterationValue(index) are unknown.
C3_ZeroStepUnknown ==
    (/\ Asked("getIterationLength") \/ Asked("getIterationValue")
     /\ IsRange3(call.self) /\ AllKnown(call.self)
     /\ StepOf(call.self) = Zero) =>
        call.result = Unknown

\* C4: when the integer fact of an operand is unknown, getIterationLength,
\* getIterationValue and getTruthValue return unknown, canPredictIterationValues
\* returns false, and none of them raises.
C4_UnknownOperand ==
    (/\ \/ Asked("getIterationLength") \/ Asked("getIterationValue")
        \/ Asked("canPredictIterationValues") \/ Asked("getTruthValue")
     /\ ~AllKnown(call.self)) =>
        /\ call.result.raises = ""
        /\ call.result = IF Asked("canPredictIterationValues")
                         THEN Returns(Bool(FALSE)) ELSE Unknown

\* C5: on an Arity3 node whose operands are all free of side effects and
\* known integers, and whose step is 0, mayHaveSideEffects() is true.
C5_ZeroStepHasSideEffects ==
    (/\ Asked("mayHaveSideEffects") /\ IsRange3(call.self) /\ AllKnown(call.self)
     /\ \A i \in 1 .. 3 : ~getVisitableNodes(call.self)[i].effects
     /\ StepOf(call.self) = Zero) =>
        call.result = Returns(Bool(TRUE))

\* C6: on an Arity3 node with known operands and a step other than zero,
\* getIterationLength() is 0 on a direction mismatch and the exact ceiling of
\* (high - low) / step otherwise, is never negative, and is the number of
\* elements low, low+step, ... strictly before high.
C6_ExactLength3 ==
    (/\ Asked("getIterationLength") /\ IsRange3(call.self) /\ AllKnown(call.self)
     /\ StepOf(call.self) # Zero) =>
        /\ call.result = Returns(ExactLength3(LowOf(call.self), HighOf(call.self),
                                              StepOf(call.self)))
        /\ CountsElements(call.result.value, LowOf(call.self), HighOf(call.self),
                          StepOf(call.self))

\* C7: on an Arity2 node with known operands, getIterationLength() is
\* max(0, high - low), getIterationValue(i) is low + i for i below that length
\* and out of range from that length on.
C7_Arity2 ==
    (call.op # "" /\ IsRange2(call.self) /\ AllKnown(call.self)) =>
        /\ Asked("getIterationLength") =>
              call.result = Returns(IntMax(Zero, IntSub(HighOf(call.self), LowOf(call.self))))
        /\ Asked("getIterationValue") =>
              call.result =
                  IF IntLt(call.arg, IntMax(Zero, IntSub(HighOf(call.self), LowOf(call.self))))
                  THEN Value(IntAdd(LowOf(call.self), call.arg))
                  ELSE OutOfRange

\* the index that is the length of a range of at least one element is out of range
C7_Witness ==
    /\ Asked("getIterationValue") /\ IsRange2(call.self) /\ AllKnown(call.self)
    /\ call.arg = IntSub(HighOf(call.self), LowOf(call.self))
    /\ IntGt(call.arg, Zero)
    /\ call.result = OutOfRange

\* the answer of computeNode: the node unchanged, no tags, no description
Unchanged(n) == Returns(<<n, None, None>>)

AllLiteral(n) ==
    \A i \in 1 .. Len(getVisitableNodes(n)) : getVisitableNodes(n)[i].literal

\* range() of the constants produces a value: integers, and no step of zero
CallProducesValue(n) ==
    /\ AllKnown(n)
    /\ IsRange3(n) => StepOf(n) # Zero

FoldingPermitted == python_version < 300

ComputeNodeAnswer ==
    Asked("computeNode") =>
        /\ call.result.raises = ""
        /\ call.result.value[1] # call.self =>
              /\ FoldingPermitted
              /\ AllLiteral(call.self)
              /\ CallProducesValue(call.self)
        /\ ~(FoldingPermitted /\ AllLiteral(call.self) /\ CallProducesValue(call.self)) =>
              /\ call.result = Unchanged(call.self)
              /\ node = call.self

ComputeNodeAgain ==
    (/\ Asked("computeNode") /\ call.result = Unchanged(call.self)
     /\ call'.op = "computeNode") =>
        /\ call' = call
        /\ node' = node

\* C8: computeNode returns a replacement only when folding is permitted, every
\* operand is a compile time constant and the simulated call produces a value;
\* in every other case it returns the same node with no tags and no
\* description, and computeNode again on that node answers the same.
C8_ComputeNode == []ComputeNodeAnswer /\ [][ComputeNodeAgain]_vars

\* range(low, high, 0) of constants, with folding permitted: the simulated
\* call raises and the node stays
C8_Witness ==
    /\ Asked("computeNode") /\ IsRange3(call.self)
    /\ FoldingPermitted /\ AllLiteral(call.self) /\ AllKnown(call.self)
    /\ StepOf(call.self) = Zero
    /\ call.result = Unchanged(call.self)
    /\ node = call.self

EffectFreeAndKnown(child) == ~child.effects /\ child.intval # None

\* C9: mayHaveSideEffects() of an Arity1, Arity2 or Arity3 node is false
\* exactly when every operand is free of side effects and has a known integer
\* value; of an Arity0 node it is false.
C9_MayHaveSideEffects ==
    Asked("mayHaveSideEffects") =>
        call.result =
            IF IsRange0(call.self) THEN Returns(Bool(FALSE))
            ELSE Returns(Bool(~\A i \in 1 .. Len(getVisitableNodes(call.self)) :
                                  EffectFreeAndKnown(getVisitableNodes(call.self)[i])))

\* an operand without side effects whose integer value is unknown
C9_Witness ==
    /\ Asked("mayHaveSideEffects") /\ IsRange2(call.self)
    /\ ~call.self.low.effects /\ ~call.self.high.effects
    /\ LowOf(call.self) # None /\ HighOf(call.self) = None
    /\ call.result = Returns(Bool(TRUE))

\* C10: isKnownToBeIterable(count) completes without error: true when count is
\* None, and else true exactly when count is the iteration length of the node.
C10_IsKnownToBeIterable ==
    Asked("isKnownToBeIterable") =>
        /\ call.result.raises = ""
        /\ call.result =
              Returns(Bool(call.arg = None \/ call.arg = getIterationLength(call.self).value))

=============================================================================
